---- MODULE Spec2Model ----
(***************************************************************************)
(* Chat manager (聊天管理器): the store of src/src/聊天管理器/store.ts with  *)
(* its module-level cache, the record source of data/chat-parser.ts and    *)
(* the forest builder of data/chat-tree.ts.                                *)
(*                                                                         *)
(* File names are modelled as records [base, ext]: base identifies the     *)
(* chat, ext counts the trailing ".jsonl" suffixes.  A file_id is a name   *)
(* with ext = 0, a file_name one with ext = 1.  Dates are integers.        *)
(***************************************************************************)
EXTENDS Integers, Sequences, FiniteSets, TLC

\* ------------------------------------------------------------------------
\* Bounds of the model
\* ------------------------------------------------------------------------
\* chats that can exist on the server: bases 1..NumChats
NumChats == 4
\* user and environment operations performed in one behaviour
MaxActs == 4
\* records in a list handed to the tree builders on their own
MaxLen == 3

\* ------------------------------------------------------------------------
\* Program constants
\* ------------------------------------------------------------------------
\* store.ts:62  5 * 60 * 1000
CACHE_TTL == 300000
\* chat-tree.ts: tree_nodes.length <= 5
SmallTree == 5

\* the clock advances in steps of half a TTL, so that an age of exactly one
\* TTL is reached after two steps
TickStep == CACHE_TTL \div 2

\* ------------------------------------------------------------------------
\* Names and records
\* ------------------------------------------------------------------------
Name(b, e) == [base |-> b, ext |-> e]
\* undefined / empty string
NoName == Name(0, 0)
Truthy(n) == n # NoName

\* chat-parser.ts cleanFileName: strips every trailing .jsonl
cleanFileName(raw) == [base |-> Name(raw.base, 0), full |-> Name(raw.base, 1)]

\* name.replace(/\.jsonl?$/, ''): strips one trailing suffix
StripSuffix(n) == IF n.ext > 0 THEN Name(n.base, n.ext - 1) ELSE n

Range(s) == {s[i] : i \in 1..Len(s)}
Ids(cs) == [i \in 1..Len(cs) |-> cs[i].file_id]

\* ------------------------------------------------------------------------
\* chat-tree.ts
\* ------------------------------------------------------------------------
DefaultSort == [by |-> "updated_at", order |-> "desc"]
\* options.sort_config left undefined
NoSort == [by |-> "none", order |-> "none"]

\* the value the comparator of sortChats subtracts
SortKey(c, by) ==
    CASE by = "updated_at" -> c.updated_at
      [] by = "created_at" -> c.created_at
      [] by = "name" -> c.display_name
      [] by = "message_count" -> c.message_count
      [] OTHER -> 0

\* Array.prototype.sort is stable: with a consistent comparator, element j
\* ends before element i exactly when the comparator puts it first, or when
\* the two compare equal and j came first.  cmp[i, j] is the comparator's
\* value on the elements at input positions i and j; the result lists the
\* input positions in output order.
StableOrder(n, cmp) ==
    LET rank(i) == Cardinality({j \in 1..n : cmp[j, i] < 0 \/ (cmp[j, i] = 0 /\ j < i)}) + 1
    IN  [r \in 1..n |-> CHOOSE i \in 1..n : rank(i) = r]

\* descending order obtained by reversing the ascending result
sortChats_reversing(cs, config) ==
    LET cmp == [i \in 1..Len(cs), j \in 1..Len(cs) |->
                   SortKey(cs[i], config.by) - SortKey(cs[j], config.by)]
        ord == StableOrder(Len(cs), cmp)
        n == Len(cs)
    IN  [r \in 1..n |-> IF config.order = "asc" THEN cs[ord[r]] ELSE cs[ord[n + 1 - r]]]

sortChats(cs, config) ==
    LET multiplier == IF config.order = "asc" THEN 1 ELSE -1
        cmp == [i \in 1..Len(cs), j \in 1..Len(cs) |->
                   multiplier * (SortKey(cs[i], config.by) - SortKey(cs[j], config.by))]
        ord == StableOrder(Len(cs), cmp)
    IN  [r \in 1..Len(cs) |-> cs[ord[r]]]

\* search is modelled as a set of display names that match the keyword;
\* the empty keyword keeps everything
filterChats(cs, options) ==
    LET keep1(c) == options.show_checkpoints \/ ~c.is_checkpoint
        r1 == SelectSeq(cs, keep1)
        keep2(c) == c.display_name \in options.search
    IN  IF options.search = {} THEN r1 ELSE SelectSeq(r1, keep2)

\* chat-parser.ts detectBranchRelations: a function child file_id -> parent file_id
RECURSIVE NameToId(_, _, _)
NameToId(cs, i, m) ==
    IF i > Len(cs) THEN m
    ELSE LET c == cs[i]
             put(f, k, v) == [x \in DOMAIN f \cup {k} |-> IF x = k THEN v ELSE f[x]]
             m1 == put(m, c.file_id, c.file_id)
             m2 == put(m1, c.file_name, c.file_id)
             m3 == put(m2, StripSuffix(c.file_name), c.file_id)
         IN  NameToId(cs, i + 1, m3)

\* a resolver that keeps a hint naming the record itself
detectBranchRelations_selfParent(cs) ==
    LET name_to_id == NameToId(cs, 1, << >>)
        has(c) == /\ Truthy(c.parent_chat)
                  /\ c.parent_chat \in DOMAIN name_to_id
        kids == {cs[i].file_id : i \in {j \in 1..Len(cs) : has(cs[j])}}
        last(k) == CHOOSE i \in 1..Len(cs) :
                      /\ cs[i].file_id = k /\ has(cs[i])
                      /\ \A j \in 1..Len(cs) : (cs[j].file_id = k /\ has(cs[j])) => j <= i
    IN  [k \in kids |-> name_to_id[cs[last(k)].parent_chat]]

detectBranchRelations(cs) ==
    LET name_to_id == NameToId(cs, 1, << >>)
        has(c) == /\ Truthy(c.parent_chat)
                  /\ c.parent_chat \in DOMAIN name_to_id
                  /\ name_to_id[c.parent_chat] # c.file_id
        kids == {cs[i].file_id : i \in {j \in 1..Len(cs) : has(cs[j])}}
        last(k) == CHOOSE i \in 1..Len(cs) :
                      /\ cs[i].file_id = k /\ has(cs[i])
                      /\ \A j \in 1..Len(cs) : (cs[j].file_id = k /\ has(cs[j])) => j <= i
    IN  [k \in kids |-> name_to_id[cs[last(k)].parent_chat]]

\* buildChatForest lines 224-228: a record without a hint takes the resolved parent
withRelations(cs, relations) ==
    [i \in 1..Len(cs) |->
        IF ~Truthy(cs[i].parent_chat) /\ cs[i].file_id \in DOMAIN relations
        THEN [cs[i] EXCEPT !.parent_chat = relations[cs[i].file_id]]
        ELSE cs[i]]

\* buildChatForest lines 232-241: one node per record, keyed by file_id
\* (a later record with the same key replaces an earlier one)
newNode(chat, expanded) ==
    [chat |-> chat, children |-> << >>, depth |-> 0,
     is_expanded |-> expanded, is_selected |-> FALSE]

nodeMap(cs, expanded) ==
    LET last(k) == CHOOSE i \in 1..Len(cs) :
                      cs[i].file_id = k /\ \A j \in 1..Len(cs) : cs[j].file_id = k => j <= i
    IN  [k \in Range(Ids(cs)) |-> newNode(cs[last(k)], expanded)]

\* buildChatForest lines 246-256: the attachment loop, in sorted order.
\* acc = [map, roots]
RECURSIVE attachAll(_, _, _)
attachAll(cs, i, acc) ==
    IF i > Len(cs) THEN acc
    ELSE LET chat == cs[i]
             id == chat.file_id
             p == chat.parent_chat
         IN  IF Truthy(p) /\ p \in DOMAIN acc.map
             THEN LET m1 == [acc.map EXCEPT ![id].depth = acc.map[p].depth + 1]
                      m2 == [m1 EXCEPT ![p].children = Append(m1[p].children, id)]
                  IN  attachAll(cs, i + 1, [acc EXCEPT !.map = m2])
             ELSE attachAll(cs, i + 1, [acc EXCEPT !.roots = Append(acc.roots, id)])

\* flattenTreeAll: pre-order list of the ids under a node, collapsed or not
RECURSIVE flattenTreeAll(_, _)
RECURSIVE flattenChildren(_, _, _)
flattenTreeAll(map, id) == <<id>> \o flattenChildren(map, map[id].children, 1)
flattenChildren(map, kids, i) ==
    IF i > Len(kids) THEN << >>
    ELSE flattenTreeAll(map, kids[i]) \o flattenChildren(map, kids, i + 1)

RECURSIVE flattenRoots(_, _, _)
flattenRoots(map, roots, i) ==
    IF i > Len(roots) THEN << >>
    ELSE flattenTreeAll(map, roots[i]) \o flattenRoots(map, roots, i + 1)

\* children left in the order in which they were attached
sortChildrenDesc_unsorted(map, roots) ==
    [k \in Range(flattenRoots(map, roots, 1)) |-> map[k]]

\* sortChildrenDesc: children by updated_at, newest first, for every node
\* under a root
sortChildrenDesc(map, roots) ==
    LET reach == Range(flattenRoots(map, roots, 1))
        sorted(kids) ==
            LET cmp == [i \in 1..Len(kids), j \in 1..Len(kids) |->
                           map[kids[j]].chat.updated_at - map[kids[i]].chat.updated_at]
                ord == StableOrder(Len(kids), cmp)
            IN  [r \in 1..Len(kids) |-> kids[ord[r]]]
    IN  [k \in reach |-> [map[k] EXCEPT !.children = sorted(map[k].children)]]

Max(a, b) == IF a > b THEN a ELSE b

RECURSIVE latestOf(_, _, _, _)
latestOf(map, ids, i, max) ==
    IF i > Len(ids) THEN max
    ELSE latestOf(map, ids, i + 1, Max(map[ids[i]].chat.updated_at, max))

\* aggregates taken from the root and its children only
makeTree_shallow(map, root) ==
    LET tree_nodes == <<root>> \o map[root].children
        has_current == \E i \in 1..Len(tree_nodes) : map[tree_nodes[i]].chat.is_current
    IN  [id |-> root, root |-> root,
         display_name |-> map[root].chat.display_name,
         node_count |-> Len(tree_nodes),
         latest_update |-> latestOf(map, tree_nodes, 1, map[root].chat.updated_at),
         has_current |-> has_current,
         is_expanded |-> has_current \/ Len(tree_nodes) <= SmallTree]

\* buildChatForest lines 268-285
makeTree(map, root) ==
    LET tree_nodes == flattenTreeAll(map, root)
        has_current == \E i \in 1..Len(tree_nodes) : map[tree_nodes[i]].chat.is_current
    IN  [id |-> root, root |-> root,
         display_name |-> map[root].chat.display_name,
         node_count |-> Len(tree_nodes),
         latest_update |-> latestOf(map, tree_nodes, 1, map[root].chat.updated_at),
         has_current |-> has_current,
         is_expanded |-> has_current \/ Len(tree_nodes) <= SmallTree]

\* trees ordered by latest_update alone
sortTrees_byUpdate(trees) ==
    LET cmp == [i \in 1..Len(trees), j \in 1..Len(trees) |->
                   trees[j].latest_update - trees[i].latest_update]
        ord == StableOrder(Len(trees), cmp)
    IN  [r \in 1..Len(trees) |-> trees[ord[r]]]

\* buildChatForest lines 288-292
sortTrees(trees) ==
    LET cmp == [i \in 1..Len(trees), j \in 1..Len(trees) |->
                   IF trees[i].has_current /\ ~trees[j].has_current THEN -1
                   ELSE IF ~trees[i].has_current /\ trees[j].has_current THEN 1
                   ELSE trees[j].latest_update - trees[i].latest_update]
        ord == StableOrder(Len(trees), cmp)
    IN  [r \in 1..Len(trees) |-> trees[ord[r]]]

\* The forest as a value: the trees in order, total_count, and the nodes that
\* can be reached from a root, keyed by file_id (children are lists of keys).
buildChatForest(chats, detect_branches, sort_config) ==
    LET effective_sort == IF sort_config = NoSort THEN DefaultSort ELSE sort_config
        sorted_chats == sortChats(chats, effective_sort)
        relations == IF detect_branches THEN detectBranchRelations(sorted_chats) ELSE << >>
        cs == withRelations(sorted_chats, relations)
        built == attachAll(cs, 1, [map |-> nodeMap(cs, TRUE), roots |-> << >>])
        map == sortChildrenDesc(built.map, built.roots)
        trees == [r \in 1..Len(built.roots) |-> makeTree(map, built.roots[r])]
    IN  [trees |-> sortTrees(trees), total_count |-> Len(chats), nodes |-> map]

EmptyForest == [trees |-> << >>, total_count |-> 0, nodes |-> << >>]

\* countNodesInForest
countNodesInForest(f) == f.total_count

\* buildChatTree lines 113-123: with a sort configuration, the children of
\* every node under a root are sorted by sortChats
sortChildren(map, roots, sort_config) ==
    LET reach == Range(flattenRoots(map, roots, 1))
        sorted(kids) ==
            IF sort_config = NoSort THEN kids
            ELSE Ids(sortChats([i \in 1..Len(kids) |-> map[kids[i]].chat], sort_config))
    IN  [k \in reach |-> [map[k] EXCEPT !.children = sorted(map[k].children)]]

\* buildChatTree: the roots in order and the nodes that can be reached from
\* them, keyed by file_id
buildChatTree(chats, detect_branches, sort_config) ==
    LET sorted_chats == IF sort_config = NoSort THEN chats ELSE sortChats(chats, sort_config)
        relations == IF detect_branches THEN detectBranchRelations(sorted_chats) ELSE << >>
        cs == withRelations(sorted_chats, relations)
        built == attachAll(cs, 1, [map |-> nodeMap(cs, FALSE), roots |-> << >>])
    IN  [roots |-> built.roots, nodes |-> sortChildren(built.map, built.roots, sort_config)]

\* a traversal that hands down whether the node is the last of its siblings
RECURSIVE traverse_ownFlag(_, _, _, _)
traverse_ownFlag(map, nodes, i, continuations) ==
    IF i > Len(nodes) THEN << >>
    ELSE LET node == nodes[i]
             isLast == i = Len(nodes)
             here == [node |-> node, isLastChild |-> isLast,
                      ancestorContinuations |-> continuations]
             below == IF map[node].is_expanded /\ Len(map[node].children) > 0
                      THEN traverse_ownFlag(map, map[node].children, 1,
                                            Append(continuations, isLast))
                      ELSE << >>
         IN  <<here>> \o below \o traverse_ownFlag(map, nodes, i + 1, continuations)

\* TreeView.vue visible_nodes_with_info: the traversal that emits a node and
\* descends into its children only when it is expanded
RECURSIVE traverse(_, _, _, _)
traverse(map, nodes, i, continuations) ==
    IF i > Len(nodes) THEN << >>
    ELSE LET node == nodes[i]
             isLast == i = Len(nodes)
             here == [node |-> node, isLastChild |-> isLast,
                      ancestorContinuations |-> continuations]
             below == IF map[node].is_expanded /\ Len(map[node].children) > 0
                      THEN traverse(map, map[node].children, 1, Append(continuations, ~isLast))
                      ELSE << >>
         IN  <<here>> \o below \o traverse(map, nodes, i + 1, continuations)

visible_nodes_with_info(map, nodes) == traverse(map, nodes, 1, << >>)

\* selected nodes collected from the visible nodes only
getSelectedNodes_visible(map, nodes) ==
    LET shown == visible_nodes_with_info(map, nodes)
        all == [i \in 1..Len(shown) |-> shown[i].node]
        picked(id) == map[id].is_selected
    IN  SelectSeq(all, picked)

\* getSelectedNodes: the selected nodes under the given nodes, in pre-order,
\* whether their ancestors are expanded or not
getSelectedNodes(map, nodes) ==
    LET all == flattenRoots(map, nodes, 1)
        picked(id) == map[id].is_selected
    IN  SelectSeq(all, picked)

\* chat-tree.ts flattenTree: the nodes under the given nodes in pre-order,
\* the children of a collapsed node left out
RECURSIVE flattenFrom(_, _, _)
flattenFrom(map, nodes, i) ==
    IF i > Len(nodes) THEN << >>
    ELSE LET node == nodes[i]
             below == IF map[node].is_expanded
                      THEN flattenFrom(map, map[node].children, 1)
                      ELSE << >>
         IN  <<node>> \o below \o flattenFrom(map, nodes, i + 1)

flattenTree(map, nodes) == flattenFrom(map, nodes, 1)

\* the roots of a forest's trees, in the order of the trees
forestRoots(f) == [i \in 1..Len(f.trees) |-> f.trees[i].root]

\* getSelectedNodesFromForest: getSelectedNodes([tree.root]) of every tree
getSelectedNodesFromForest(f) == getSelectedNodes(f.nodes, forestRoots(f))

\* ------------------------------------------------------------------------
\* The record source (chat-parser.ts fetchChatList) and the host application
\* ------------------------------------------------------------------------
NoChar == "none"
Owners == {"A", "B"}
Bases == 1..NumChats
\* the character a chat file belongs to (its avatar directory); character
\* names and avatars correspond one to one
OwnerOf(b) == IF b % 3 = 0 THEN "B" ELSE "A"
\* chat_metadata.main_chat: chat 2 was branched from chat 1
MainChat(b) == IF b = 2 THEN Name(1, 0) ELSE NoName

VARIABLES
    \* host application and server
    now,            \* Date.now()
    char,           \* getCharData('current'): the name of the active character, or NoChar
    cur_chat,       \* char_data.chat of each character: base of its open chat, 0 if none
    srv,            \* bases of the chat files on the server
    msgs,           \* chat_items of each chat file
    next_obj,       \* serial number of the next fetch (identity of the records it creates)
    \* module level of store.ts
    global_cache,
    \* the store instance of the open panel
    mounted, chats, forest, is_loading, is_background_loading, error_message, cache_time,
    \* calls in flight on the open panel's store
    load,           \* a direct loadChats call
    bg,             \* refreshInBackground
    del,            \* deleteChats
    ren,            \* renameChat
    opn,            \* openChat
    \* fetches still in flight on the stores of panels closed since
    orphans,
    \* history
    acts,           \* operations started so far
    invalidated,    \* invalidateCache was called and loadChats has not been called since
    last,           \* the step taken last
    \* the tree builders of chat-tree.ts called on their own
    input,          \* the arguments: a record list and a sort configuration
    result          \* what buildChatForest and buildChatTree return for them

envVars == <<now, char, cur_chat, srv, msgs>>
storeVars == <<chats, forest, is_loading, is_background_loading, error_message, cache_time>>
taskVars == <<load, bg, del, ren>>
treeVars == <<input, result>>
progVars == <<now, char, cur_chat, srv, msgs, next_obj, global_cache, mounted, chats, forest,
              is_loading, is_background_loading, error_message, cache_time, load, bg, del, ren,
              opn, orphans, acts, invalidated, last>>
vars == <<now, char, cur_chat, srv, msgs, next_obj, global_cache, mounted, chats, forest,
          is_loading, is_background_loading, error_message, cache_time, load, bg, del, ren,
          opn, orphans, acts, invalidated, last, input, result>>

\* one record as fetchChatList builds it (lines 161-193) from the raw file
\* name Name(b, 1); created_at is parsed from the file name
chatInfo(b, chat_items, current_chat, obj) ==
    LET clean == cleanFileName(Name(b, 1))
    IN  [file_id |-> clean.base,
         file_name |-> clean.full,
         display_name |-> b,
         created_at |-> b,
         updated_at |-> b,
         message_count |-> chat_items,
         parent_chat |-> MainChat(b),
         is_checkpoint |-> FALSE,
         is_current |-> clean.base = current_chat \/ clean.full = current_chat,
         obj |-> obj]

RECURSIVE ascending(_)
ascending(S) ==
    IF S = {} THEN << >>
    ELSE LET m == CHOOSE x \in S : \A y \in S : x <= y
         IN  <<m>> \o ascending(S \ {m})

\* fetchChatList with the server holding the files `files` with `items`
\* messages each: the records of the active character, in the server's order
fetchFrom(files, items, opened) ==
    IF char = NoChar THEN << >>
    ELSE LET mine == {b \in files : OwnerOf(b) = char}
             order == ascending(mine)
             current_chat == Name(opened[char], 0)
         IN  [i \in 1..Len(order) |->
                 chatInfo(order[i], items[order[i]], current_chat, next_obj)]

fetchChatList == fetchFrom(srv, msgs, cur_chat)

\* the content of a record list, without the identity of its objects
Content(cs) == [i \in 1..Len(cs) |-> [cs[i] EXCEPT !.obj = 0]]

\* ------------------------------------------------------------------------
\* store.ts
\* ------------------------------------------------------------------------
NoCache == [set |-> FALSE, chats |-> << >>, timestamp |-> 0, character |-> NoChar]
NoError == "null"
LoadFailed == "load failed"
NoTime == -1

\* store.ts:37-38, types.ts DEFAULT_SETTINGS
search_keyword == {}
show_checkpoints == TRUE
sort_config == DefaultSort

filtered_chats(cs) == filterChats(cs, [search |-> search_keyword, show_checkpoints |-> show_checkpoints])

isCacheValid_inclusive ==
    /\ global_cache.set
    /\ char # NoChar
    /\ global_cache.character = char
    /\ now - global_cache.timestamp <= CACHE_TTL

isCacheValid ==
    /\ global_cache.set
    /\ char # NoChar
    /\ global_cache.character = char
    /\ now - global_cache.timestamp < CACHE_TTL

\* updateCache: the cache entry after the call
updateCache(new_chats) ==
    IF char = NoChar THEN global_cache
    ELSE [set |-> TRUE, chats |-> new_chats, timestamp |-> now, character |-> char]

\* updateCache: cache_time after the call, on a store whose cache_time is t
updateCacheTime(t) == IF char = NoChar THEN t ELSE now

rebuildForest(cs) == buildChatForest(filtered_chats(cs), TRUE, sort_config)

\* A call in flight: where it stands (pc), the character its fetch was
\* started for (owner) and the records the fetch returns if it returns (res);
\* after a loadChats call, how its fetch ended and how the call settled.
\* stale: a delete request was sent after the fetch started.
Idle == [pc |-> "idle", owner |-> NoChar, res |-> << >>, stale |-> FALSE,
         fetch |-> "none", settled |-> "none"]
Fetching == [pc |-> "fetching", owner |-> char, res |-> fetchChatList, stale |-> FALSE,
             fetch |-> "none", settled |-> "none"]

\* fetchChatList can throw only after its getCharData check (line 130) has
\* found a character
CanThrow(t) == t.owner # NoChar

\* loadChats lines 98-109: how the call settles for its caller once the fetch
\* has succeeded or thrown (the catch block does not rethrow)
loadChatsSettles(ok) == "fulfilled"

\* a refresh requested only for a cache that has aged
refreshInBackground_aged ==
    IF is_background_loading \/ now = global_cache.timestamp
    THEN UNCHANGED <<bg, is_background_loading, next_obj>>
    ELSE /\ is_background_loading' = TRUE
         /\ bg' = Fetching
         /\ next_obj' = next_obj + 1

\* refreshInBackground lines 113-117: the request
refreshInBackground ==
    IF is_background_loading
    THEN UNCHANGED <<bg, is_background_loading, next_obj>>
    ELSE /\ is_background_loading' = TRUE
         /\ bg' = Fetching
         /\ next_obj' = next_obj + 1

\* serving the cache without building the forest again
serveFromCache_keepsForest ==
    /\ error_message' = NoError
    /\ chats' = global_cache.chats
    /\ cache_time' = global_cache.timestamp
    /\ forest' = IF Ids(chats) = Ids(global_cache.chats) THEN forest
                 ELSE rebuildForest(global_cache.chats)
    /\ refreshInBackground
    /\ UNCHANGED <<global_cache, is_loading>>

\* loadChats lines 81-93: the cache is served
serveFromCache ==
    /\ error_message' = NoError
    /\ chats' = global_cache.chats
    /\ cache_time' = global_cache.timestamp
    /\ forest' = rebuildForest(global_cache.chats)
    /\ refreshInBackground
    /\ UNCHANGED <<global_cache, is_loading>>

\* loadChats lines 81, 96-99: the fetch is started
startFetch ==
    /\ error_message' = NoError
    /\ is_loading' = TRUE
    /\ next_obj' = next_obj + 1
    /\ UNCHANGED <<chats, forest, cache_time, global_cache, bg, is_background_loading>>

\* a failed fetch that empties the list
fetchedChats_clears(ok, res) ==
    /\ IF ok
       THEN /\ chats' = res
            /\ global_cache' = updateCache(res)
            /\ cache_time' = updateCacheTime(cache_time)
            /\ forest' = rebuildForest(res)
            /\ UNCHANGED error_message
       ELSE /\ error_message' = LoadFailed
            /\ chats' = << >>
            /\ forest' = rebuildForest(<< >>)
            /\ UNCHANGED <<global_cache, cache_time>>
    /\ is_loading' = FALSE

\* loadChats lines 99-109: the fetch is over
fetchedChats(ok, res) ==
    /\ IF ok
       THEN /\ chats' = res
            /\ global_cache' = updateCache(res)
            /\ cache_time' = updateCacheTime(cache_time)
            /\ forest' = rebuildForest(res)
            /\ UNCHANGED error_message
       ELSE /\ error_message' = LoadFailed
            /\ UNCHANGED <<chats, global_cache, cache_time, forest>>
    /\ is_loading' = FALSE

\* deleteChats line 320: the object the call returns
deleteResult(d) == [success_count |-> d.success_count, fail_count |-> d.fail_count]

\* a call of deleteChats: its locals, its reload (owner, res, fetch, settled
\* as for loadChats), how it ended (returned, value), and as history the ids
\* it has sent a delete request for (sent), the answers it got (answers) and
\* the ids the record source holds for the character when the reload is made
\* (held)
DelIdle ==
    [pc |-> "idle", file_ids |-> << >>, k |-> 0, avatar |-> NoChar,
     will_delete_original |-> FALSE, success_count |-> 0, fail_count |-> 0,
     failed_ids |-> << >>, first_chat |-> NoName, first_obj |-> 0,
     owner |-> NoChar, res |-> << >>, stale |-> FALSE, fetch |-> "none", settled |-> "none",
     returned |-> "none", value |-> << >>, sent |-> << >>, answers |-> << >>, held |-> {}]

RenIdle == [pc |-> "idle", file_id |-> NoName, owner |-> NoChar, res |-> << >>, stale |-> FALSE,
            fetch |-> "none", settled |-> "none"]

\* a call of openChat: not running, or waiting for openCharacterChat(file_id)
OpnIdle == [pc |-> "idle", file_id |-> NoName]

TakesFetchPath(force_refresh) == force_refresh \/ ~isCacheValid

\* nothing was handed to the tree builders
NoInput == << >>
NoResult == [built |-> FALSE, sort_config |-> NoSort, sorted |-> << >>,
             relations |-> << >>,
             forest |-> EmptyForest, tree |-> [roots |-> << >>, nodes |-> << >>]]

InitStore ==
    /\ now = 0 /\ char = "A"
    /\ cur_chat = [o \in Owners |-> IF o = "A" THEN 1 ELSE 3]
    /\ srv = {b \in Bases : b <= 3}
    /\ msgs = [b \in Bases |-> 1]
    /\ next_obj = 1
    /\ global_cache = NoCache
    /\ mounted = FALSE
    /\ chats = << >> /\ forest = EmptyForest
    /\ is_loading = FALSE /\ is_background_loading = FALSE
    /\ error_message = NoError /\ cache_time = NoTime
    /\ load = Idle /\ bg = Idle /\ del = DelIdle /\ ren = RenIdle /\ opn = OpnIdle
    /\ orphans = {}
    /\ acts = 0 /\ invalidated = FALSE /\ last = [op |-> "init", marked |-> FALSE]

Init == InitStore /\ input = NoInput /\ result = NoResult

\* some node of the forest is selected or collapsed
Marked(f) == \E n \in DOMAIN f.nodes : f.nodes[n].is_selected \/ ~f.nodes[n].is_expanded

\* history: the step being taken, and whether the forest was marked before it
Did(op) == [op |-> op, marked |-> Marked(forest)]

Step(name) == acts < MaxActs /\ acts' = acts + 1 /\ last' = Did(name)

\* a direct call of loadChats (the refresh button calls loadChats()); one
\* direct call, one deleteChats and one renameChat are followed at a time
LoadChats(force_refresh) ==
    /\ mounted /\ load.pc = "idle"
    /\ IF TakesFetchPath(force_refresh)
       THEN startFetch /\ load' = Fetching /\ Step("load_fetch")
       ELSE serveFromCache /\ load' = Idle /\ Step("load_served")
    /\ invalidated' = FALSE
    /\ UNCHANGED <<envVars, mounted, del, ren, orphans>>
    /\ UNCHANGED <<opn, treeVars>>

\* the fetch of a direct loadChats call returns or throws
LoadDone(ok) ==
    /\ load.pc = "fetching"
    /\ ~ok => CanThrow(load)
    /\ fetchedChats(ok, load.res)
    /\ load' = [Idle EXCEPT !.fetch = IF ok THEN "ok" ELSE "failed",
                            !.settled = loadChatsSettles(ok)]
    /\ last' = Did(IF ok THEN "load_done" ELSE "load_failed")
    /\ UNCHANGED <<envVars, next_obj, mounted, is_background_loading, bg, del, ren,
                   orphans, acts, invalidated>>
    /\ UNCHANGED <<opn, treeVars>>

\* refreshInBackground line 120: JSON.stringify of the two file_id lists differ
idsChanged_content(new_chats, shown) == Content(new_chats) # Content(shown)

idsChanged(new_chats, shown) == Ids(new_chats) # Ids(shown)

\* a refresh that reports its failure like loadChats does
RefreshDone_surfaces(ok) ==
    /\ bg.pc = "fetching"
    /\ ~ok => CanThrow(bg)
    /\ IF ok
       THEN /\ global_cache' = updateCache(bg.res)
            /\ cache_time' = updateCacheTime(cache_time)
            /\ IF idsChanged(bg.res, chats)
               THEN chats' = bg.res /\ forest' = rebuildForest(bg.res)
               ELSE UNCHANGED <<chats, forest>>
            /\ UNCHANGED error_message
       ELSE /\ error_message' = LoadFailed
            /\ UNCHANGED <<chats, forest, global_cache, cache_time>>
    /\ last' = Did(IF ok THEN "refresh_done" ELSE "refresh_failed")
    /\ is_background_loading' = FALSE
    /\ bg' = Idle
    /\ UNCHANGED <<envVars, next_obj, mounted, is_loading, load, del, ren,
                   orphans, acts, invalidated>>
    /\ UNCHANGED <<opn, treeVars>>

\* a refresh without the finally block: the flag is reset on success only
RefreshDone_noFinally(ok) ==
    /\ bg.pc = "fetching"
    /\ ~ok => CanThrow(bg)
    /\ IF ok
       THEN IF idsChanged(bg.res, chats)
            THEN /\ chats' = bg.res
                 /\ global_cache' = updateCache(bg.res)
                 /\ cache_time' = updateCacheTime(cache_time)
                 /\ forest' = rebuildForest(bg.res)
            ELSE /\ global_cache' = updateCache(bg.res)
                 /\ cache_time' = updateCacheTime(cache_time)
                 /\ UNCHANGED <<chats, forest>>
       ELSE UNCHANGED <<chats, forest, global_cache, cache_time>>
    /\ last' = Did(IF ok THEN "refresh_done" ELSE "refresh_failed")
    /\ is_background_loading' = ~ok
    /\ bg' = Idle
    /\ UNCHANGED <<envVars, next_obj, mounted, is_loading, error_message, load, del, ren,
                   orphans, acts, invalidated>>
    /\ UNCHANGED <<opn, treeVars>>

\* refreshInBackground lines 117-133: the fetch returns or throws
RefreshDone(ok) ==
    /\ bg.pc = "fetching"
    /\ ~ok => CanThrow(bg)
    /\ IF ok
       THEN IF idsChanged(bg.res, chats)
            THEN /\ chats' = bg.res
                 /\ global_cache' = updateCache(bg.res)
                 /\ cache_time' = updateCacheTime(cache_time)
                 /\ forest' = rebuildForest(bg.res)
            ELSE /\ global_cache' = updateCache(bg.res)
                 /\ cache_time' = updateCacheTime(cache_time)
                 /\ UNCHANGED <<chats, forest>>
       ELSE UNCHANGED <<chats, forest, global_cache, cache_time>>
    /\ last' = Did(IF ok THEN "refresh_done" ELSE "refresh_failed")
    /\ is_background_loading' = FALSE
    /\ bg' = Idle
    /\ UNCHANGED <<envVars, next_obj, mounted, is_loading, error_message, load, del, ren,
                   orphans, acts, invalidated>>
    /\ UNCHANGED <<opn, treeVars>>

\* ---- deleteChats -------------------------------------------------------
\* a delete request leaves: every fetch in flight was started before it
markStale(t) == IF t.pc = "fetching" THEN [t EXCEPT !.stale = TRUE] ELSE t
markOrphans == {[o EXCEPT !.stale = TRUE] : o \in orphans}

\* the lists deleteChats is called with: one or two displayed chats
DeleteLists ==
    LET ids == Range(Ids(chats))
    IN  {<<a>> : a \in ids} \cup {<<a, b>> : <<a, b>> \in {p \in ids \X ids : p[1] # p[2]}}

\* current_chat (store.ts:52)
current_chat_id ==
    IF \E i \in 1..Len(chats) : chats[i].is_current
    THEN chats[CHOOSE i \in 1..Len(chats) :
                  chats[i].is_current /\ \A j \in 1..i - 1 : ~chats[j].is_current].file_id
    ELSE NoName

\* deleteChats lines 232-287: up to the first delete request
DeleteChats(file_ids) ==
    /\ mounted /\ del.pc = "idle" /\ char # NoChar
    /\ file_ids \in DeleteLists
    /\ LET deleted_ids == Range(file_ids)
           keep(c) == c.file_id \notin deleted_ids
           left == SelectSeq(chats, keep)
       IN  /\ chats' = left
           /\ forest' = rebuildForest(left)
           /\ del' = [DelIdle EXCEPT !.pc = "request", !.file_ids = file_ids, !.k = 1,
                                     !.sent = <<file_ids[1]>>,
                                     !.avatar = char,
                                     !.will_delete_original =
                                         Truthy(current_chat_id) /\ current_chat_id \in deleted_ids]
    /\ load' = markStale(load) /\ bg' = markStale(bg) /\ ren' = markStale(ren)
    /\ orphans' = markOrphans
    /\ Step("delete")
    /\ UNCHANGED <<envVars, next_obj, global_cache, mounted, is_loading, is_background_loading,
                   error_message, cache_time, invalidated>>
    /\ UNCHANGED <<opn, treeVars>>

\* deleteChatDirect: chat_file with every .jsonl stripped and one appended
chatfile(chat_file) == cleanFileName(chat_file).full

\* the server can delete the file only if it exists under the avatar's directory
CanDelete(avatar, file) == file.base \in srv /\ OwnerOf(file.base) = avatar

\* deleteChats lines 287-302: the answer to the delete request for file_ids[k]
DeleteResponse(ok) ==
    /\ del.pc = "request"
    /\ LET file_id == del.file_ids[del.k]
           file == chatfile(file_id)
           many == Len(del.file_ids) > 1
       IN  /\ ok => CanDelete(del.avatar, file)
           /\ srv' = IF ok THEN srv \ {file.base} ELSE srv
           /\ del' = [del EXCEPT
                        !.success_count = IF ok THEN @ + 1 ELSE @,
                        !.fail_count = IF ok THEN @ ELSE @ + 1,
                        !.failed_ids = IF ok THEN @ ELSE Append(@, file_id),
                        !.answers = Append(@, ok),
                        !.pc = IF many THEN "pause" ELSE "settle"]
    /\ last' = Did(IF ok THEN "delete_ok" ELSE "delete_failed")
    /\ UNCHANGED <<now, char, cur_chat, msgs, next_obj, global_cache, mounted, storeVars,
                   load, bg, ren, orphans, acts, invalidated>>
    /\ UNCHANGED <<opn, treeVars>>

\* a loop that stops after the first pause
DeletePauseOver_skipsRest ==
    /\ del.pc = "pause"
    /\ del' = [del EXCEPT !.pc = "settle"]
    /\ last' = Did("delete_pause")
    /\ UNCHANGED <<load, bg, ren, orphans>>
    /\ UNCHANGED <<envVars, next_obj, global_cache, mounted, storeVars, acts, invalidated>>
    /\ UNCHANGED <<opn, treeVars>>

\* deleteChats lines 296-298, 281-287: the 100 ms between two requests are over
DeletePauseOver ==
    /\ del.pc = "pause"
    /\ IF del.k < Len(del.file_ids)
       THEN /\ del' = [del EXCEPT !.k = @ + 1, !.pc = "request",
                                  !.sent = Append(@, del.file_ids[del.k + 1])]
            /\ load' = markStale(load) /\ bg' = markStale(bg) /\ ren' = markStale(ren)
            /\ orphans' = markOrphans
       ELSE /\ del' = [del EXCEPT !.pc = "settle"]
            /\ UNCHANGED <<load, bg, ren, orphans>>
    /\ last' = Did("delete_pause")
    /\ UNCHANGED <<envVars, next_obj, global_cache, mounted, storeVars, acts, invalidated>>
    /\ UNCHANGED <<opn, treeVars>>

\* invalidateCache
invalidateCache == global_cache' = NoCache /\ cache_time' = NoTime

\* deleteChats lines 302-306: the 500 ms are over; invalidateCache, loadChats(true)
DeleteSettled ==
    /\ del.pc = "settle"
    /\ invalidateCache
    /\ error_message' = NoError
    /\ is_loading' = TRUE
    /\ next_obj' = next_obj + 1
    /\ del' = [del EXCEPT !.pc = "fetching", !.owner = char, !.res = fetchChatList,
                          !.held = Range(Ids(fetchChatList))]
    /\ invalidated' = FALSE
    /\ last' = Did("delete_reload")
    /\ UNCHANGED <<envVars, mounted, chats, forest, is_background_loading, load, bg, ren,
                   orphans, acts>>
    /\ UNCHANGED <<opn, treeVars>>

\* first_chat.is_current = true, on the object it was read from
setCurrent(cs, id, obj) ==
    [i \in 1..Len(cs) |->
        IF cs[i].file_id = id /\ cs[i].obj = obj THEN [cs[i] EXCEPT !.is_current = TRUE]
        ELSE cs[i]]

setCurrentInForest(f, id, obj) ==
    [f EXCEPT !.nodes = [n \in DOMAIN f.nodes |->
        IF f.nodes[n].chat.file_id = id /\ f.nodes[n].chat.obj = obj
        THEN [f.nodes[n] EXCEPT !.chat.is_current = TRUE]
        ELSE f.nodes[n]]]

\* deleteChats lines 306-320, after loadChats(true) is over
DeleteLoadDone(ok) ==
    /\ del.pc = "fetching"
    /\ ~ok => CanThrow(del)
    /\ fetchedChats(ok, del.res)
    /\ LET settled == loadChatsSettles(ok)
           done == [del EXCEPT !.pc = "idle", !.owner = NoChar, !.res = << >>, !.stale = FALSE,
                               !.fetch = IF ok THEN "ok" ELSE "failed",
                               !.settled = settled]
       IN  IF settled = "rejected"
           THEN del' = [done EXCEPT !.returned = "threw"]
           ELSE IF del.will_delete_original /\ Len(chats') > 0
                THEN del' = [done EXCEPT !.pc = "opening",
                                         !.first_chat = chats'[1].file_id,
                                         !.first_obj = chats'[1].obj]
                ELSE del' = [done EXCEPT !.returned = "counts", !.value = deleteResult(del)]
    /\ last' = Did(IF ok THEN "delete_loaded" ELSE "delete_load_failed")
    /\ UNCHANGED <<envVars, next_obj, mounted, is_background_loading, load, bg, ren,
                   orphans, acts, invalidated>>
    /\ UNCHANGED <<opn, treeVars>>

\* SillyTavern.openCharacterChat(file_id) can open a chat of the active character
CanOpen(file_id) == char # NoChar /\ file_id.base \in srv /\ OwnerOf(file_id.base) = char

\* deleteChats lines 311-320
DeleteOpenDone(ok) ==
    /\ del.pc = "opening"
    /\ ok => CanOpen(del.first_chat)
    /\ IF ok
       THEN /\ cur_chat' = [cur_chat EXCEPT ![char] = del.first_chat.base]
            /\ chats' = setCurrent(chats, del.first_chat, del.first_obj)
            /\ forest' = setCurrentInForest(forest, del.first_chat, del.first_obj)
            /\ global_cache' = [global_cache EXCEPT
                                  !.chats = setCurrent(@, del.first_chat, del.first_obj)]
            /\ del' = [del EXCEPT !.pc = "idle", !.returned = "counts",
                                  !.value = deleteResult(del)]
       ELSE /\ UNCHANGED <<cur_chat, chats, forest, global_cache>>
            /\ del' = [del EXCEPT !.pc = "idle", !.returned = "threw"]
    /\ last' = Did("delete_opened")
    /\ UNCHANGED <<now, char, srv, msgs, next_obj, mounted, is_loading, is_background_loading,
                   error_message, cache_time, load, bg, ren, orphans, acts, invalidated>>
    /\ UNCHANGED <<opn, treeVars>>

\* ---- renameChat --------------------------------------------------------
\* renameChat line 356: the rename request leaves
RenameChat(file_id) ==
    /\ mounted /\ ren.pc = "idle"
    /\ file_id \in Range(Ids(chats))
    /\ ren' = [RenIdle EXCEPT !.pc = "renaming", !.file_id = file_id]
    /\ Step("rename")
    /\ UNCHANGED <<envVars, next_obj, global_cache, mounted, storeVars, load, bg, del,
                   orphans, invalidated>>
    /\ UNCHANGED <<opn, treeVars>>

\* the file of the active character is renamed: it gets a name no file has
CanRename(file_id, to) ==
    /\ char # NoChar /\ file_id.base \in srv /\ OwnerOf(file_id.base) = char
    /\ to \in Bases \ srv /\ OwnerOf(to) = char

\* renameChat lines 356-362: the answer to the rename request; on success
\* loadChats() is called
RenameResponse(ok) ==
    /\ ren.pc = "renaming"
    /\ IF ok
       THEN /\ \E to \in Bases :
                 /\ CanRename(ren.file_id, to)
                 /\ srv' = (srv \ {ren.file_id.base}) \cup {to}
                 /\ msgs' = [msgs EXCEPT ![to] = msgs[ren.file_id.base]]
                 /\ cur_chat' = [cur_chat EXCEPT
                                   ![char] = IF @ = ren.file_id.base THEN to ELSE @]
            /\ invalidated' = FALSE
            /\ IF TakesFetchPath(FALSE)
               THEN /\ startFetch
                    /\ ren' = [ren EXCEPT !.pc = "fetching", !.owner = char,
                                            !.res = fetchFrom(srv', msgs', cur_chat')]
                    /\ last' = Did("rename_fetch")
               ELSE /\ serveFromCache
                    /\ ren' = RenIdle
                    /\ last' = Did("rename_served")
       ELSE /\ ren' = RenIdle
            /\ last' = Did("rename_failed")
            /\ UNCHANGED <<srv, msgs, cur_chat, next_obj, global_cache, storeVars, bg,
                           invalidated>>
    /\ UNCHANGED <<now, char, mounted, load, del, orphans, acts>>
    /\ UNCHANGED <<opn, treeVars>>

RenameLoadDone(ok) ==
    /\ ren.pc = "fetching"
    /\ ~ok => CanThrow(ren)
    /\ fetchedChats(ok, ren.res)
    /\ ren' = [RenIdle EXCEPT !.fetch = IF ok THEN "ok" ELSE "failed",
                              !.settled = loadChatsSettles(ok)]
    /\ last' = Did(IF ok THEN "rename_loaded" ELSE "rename_load_failed")
    /\ UNCHANGED <<envVars, next_obj, mounted, is_background_loading, load, bg, del,
                   orphans, acts, invalidated>>
    /\ UNCHANGED <<opn, treeVars>>

\* ---- openChat ----------------------------------------------------------
\* openChat line 158: openCharacterChat(file_id) is requested for a displayed
\* chat
OpenChat(file_id) ==
    /\ mounted /\ opn.pc = "idle"
    /\ file_id \in Range(Ids(chats))
    /\ opn' = [pc |-> "opening", file_id |-> file_id]
    /\ Step("open_chat")
    /\ UNCHANGED <<envVars, next_obj, global_cache, mounted, storeVars, taskVars, orphans,
                   invalidated>>
    /\ UNCHANGED treeVars

\* chat.is_current = chat.file_id === file_id on the objects of the list cs
\* that are objects of the displayed list
markCurrent(cs, file_id, shown) ==
    [i \in 1..Len(cs) |->
        IF \E k \in 1..Len(shown) : shown[k].file_id = cs[i].file_id /\ shown[k].obj = cs[i].obj
        THEN [cs[i] EXCEPT !.is_current = (cs[i].file_id = file_id)]
        ELSE cs[i]]

\* the nodes of the forest hold the objects of the displayed list
markCurrentInForest(f, file_id, shown) ==
    [f EXCEPT !.nodes = [n \in DOMAIN f.nodes |->
        [f.nodes[n] EXCEPT !.chat = markCurrent(<<f.nodes[n].chat>>, file_id, shown)[1]]]]

\* openChat lines 158-169: openCharacterChat has returned or thrown; the
\* marks of the displayed records are set anew, the forest is not built again
OpenChatDone(ok) ==
    /\ opn.pc = "opening"
    /\ ok => CanOpen(opn.file_id)
    /\ IF ok
       THEN /\ cur_chat' = [cur_chat EXCEPT ![char] = opn.file_id.base]
            /\ chats' = markCurrent(chats, opn.file_id, chats)
            /\ forest' = markCurrentInForest(forest, opn.file_id, chats)
            /\ global_cache' = [global_cache EXCEPT
                                  !.chats = markCurrent(@, opn.file_id, chats)]
       ELSE UNCHANGED <<cur_chat, chats, forest, global_cache>>
    /\ opn' = OpnIdle
    /\ last' = Did(IF ok THEN "chat_opened" ELSE "chat_open_failed")
    /\ UNCHANGED <<now, char, srv, msgs, next_obj, mounted, is_loading, is_background_loading,
                   error_message, cache_time, taskVars, orphans, acts, invalidated>>
    /\ UNCHANGED treeVars

\* ---- the panel (index.ts, MainPanel.vue) -------------------------------
\* openChatManager: a new pinia, a new store; onMounted calls loadChats()
Open ==
    /\ ~mounted /\ char # NoChar
    /\ mounted' = TRUE
    /\ IF TakesFetchPath(FALSE)
       THEN startFetch /\ load' = Fetching /\ Step("open_fetch")
       ELSE serveFromCache /\ load' = Idle /\ Step("open_served")
    /\ invalidated' = FALSE
    /\ UNCHANGED <<envVars, del, ren, orphans>>
    /\ UNCHANGED <<opn, treeVars>>

\* closeChatManager: the store is dropped; its fetches in flight go on.  The
\* panel is closed only while no delete or rename of it is in flight.
Close ==
    /\ mounted /\ del.pc = "idle" /\ ren.pc = "idle" /\ opn.pc = "idle"
    /\ mounted' = FALSE
    /\ orphans' = orphans
          \cup (IF load.pc = "fetching"
                THEN {[kind |-> "load", owner |-> load.owner, res |-> load.res,
                       stale |-> load.stale]} ELSE {})
          \cup (IF bg.pc = "fetching"
                THEN {[kind |-> "refresh", owner |-> bg.owner, res |-> bg.res,
                       stale |-> bg.stale]} ELSE {})
    /\ chats' = << >> /\ forest' = EmptyForest
    /\ is_loading' = FALSE /\ is_background_loading' = FALSE
    /\ error_message' = NoError /\ cache_time' = NoTime
    /\ load' = Idle /\ bg' = Idle /\ del' = DelIdle /\ ren' = RenIdle
    /\ invalidated' = FALSE
    /\ Step("close")
    /\ UNCHANGED <<envVars, next_obj, global_cache>>
    /\ UNCHANGED <<opn, treeVars>>

\* a fetch of a dropped store returns or throws: loadChats and
\* refreshInBackground both go through updateCache when it returns
OrphanDone(o, ok) ==
    /\ o \in orphans
    /\ ~ok => CanThrow(o)
    /\ orphans' = orphans \ {o}
    /\ global_cache' = IF ok THEN updateCache(o.res) ELSE global_cache
    /\ last' = Did(IF ok THEN "orphan_done" ELSE "orphan_failed")
    /\ UNCHANGED <<envVars, next_obj, mounted, storeVars, taskVars, acts, invalidated>>
    /\ UNCHANGED <<opn, treeVars>>

\* invalidateCache called on the store
InvalidateCache ==
    /\ mounted
    /\ invalidateCache
    /\ invalidated' = TRUE
    /\ Step("invalidate")
    /\ UNCHANGED <<envVars, next_obj, mounted, chats, forest, is_loading,
                   is_background_loading, error_message, taskVars, orphans>>
    /\ UNCHANGED <<opn, treeVars>>

\* TreeView toggle_select / toggle_expand
ToggleSelect(id) ==
    /\ mounted /\ id \in DOMAIN forest.nodes
    /\ forest' = [forest EXCEPT !.nodes[id].is_selected = ~@]
    /\ Step("select")
    /\ UNCHANGED <<envVars, next_obj, global_cache, mounted, chats, is_loading,
                   is_background_loading, error_message, cache_time, taskVars, orphans,
                   invalidated>>
    /\ UNCHANGED <<opn, treeVars>>

ToggleExpand(id) ==
    /\ mounted /\ id \in DOMAIN forest.nodes
    /\ forest' = [forest EXCEPT !.nodes[id].is_expanded = ~@]
    /\ Step("expand")
    /\ UNCHANGED <<envVars, next_obj, global_cache, mounted, chats, is_loading,
                   is_background_loading, error_message, cache_time, taskVars, orphans,
                   invalidated>>
    /\ UNCHANGED <<opn, treeVars>>

\* ---- the environment ---------------------------------------------------
Tick ==
    /\ now' = now + TickStep
    /\ Step("tick")
    /\ UNCHANGED <<char, cur_chat, srv, msgs, next_obj, global_cache, mounted, storeVars,
                   taskVars, orphans, invalidated>>
    /\ UNCHANGED <<opn, treeVars>>

\* another character (or none) becomes the active one
SwitchChar(c) ==
    /\ c \in (Owners \cup {NoChar}) \ {char}
    /\ char' = c
    /\ Step("switch")
    /\ UNCHANGED <<now, cur_chat, srv, msgs, next_obj, global_cache, mounted, storeVars,
                   taskVars, orphans, invalidated>>
    /\ UNCHANGED <<opn, treeVars>>

\* the host application creates a chat file, or a chat gets a new message
ServerAdd(b) ==
    /\ b \in Bases \ srv
    /\ srv' = srv \cup {b}
    /\ msgs' = [msgs EXCEPT ![b] = 1]
    /\ Step("server_add")
    /\ UNCHANGED <<now, char, cur_chat, next_obj, global_cache, mounted, storeVars,
                   taskVars, orphans, invalidated>>
    /\ UNCHANGED <<opn, treeVars>>

ServerMessage(b) ==
    /\ b \in srv /\ msgs[b] = 1
    /\ msgs' = [msgs EXCEPT ![b] = 2]
    /\ Step("server_message")
    /\ UNCHANGED <<now, char, cur_chat, srv, next_obj, global_cache, mounted, storeVars,
                   taskVars, orphans, invalidated>>
    /\ UNCHANGED <<opn, treeVars>>

Next ==
    \/ Open
    \/ Close
    \/ LoadChats(FALSE)
    \/ \E ok \in BOOLEAN : LoadDone(ok)
    \/ \E ok \in BOOLEAN : RefreshDone(ok)
    \/ \E file_ids \in DeleteLists : DeleteChats(file_ids)
    \/ \E ok \in BOOLEAN : DeleteResponse(ok)
    \/ DeletePauseOver
    \/ DeleteSettled
    \/ \E ok \in BOOLEAN : DeleteLoadDone(ok)
    \/ \E ok \in BOOLEAN : DeleteOpenDone(ok)
    \/ \E id \in Range(Ids(chats)) : RenameChat(id)
    \/ \E ok \in BOOLEAN : RenameResponse(ok)
    \/ \E ok \in BOOLEAN : RenameLoadDone(ok)
    \/ \E id \in Range(Ids(chats)) : OpenChat(id)
    \/ \E ok \in BOOLEAN : OpenChatDone(ok)
    \/ \E o \in orphans, ok \in BOOLEAN : OrphanDone(o, ok)
    \/ InvalidateCache
    \/ \E id \in DOMAIN forest.nodes : ToggleSelect(id)
    \/ \E id \in DOMAIN forest.nodes : ToggleExpand(id)
    \/ Tick
    \/ \E c \in Owners \cup {NoChar} : SwitchChar(c)
    \/ \E b \in Bases : ServerAdd(b)
    \/ \E b \in Bases : ServerMessage(b)

Spec == Init /\ [][Next]_vars

\* A fetch in flight returns or throws in the end, and the continuation of
\* the await then runs: the steps that end a refresh are taken when they
\* stay possible.
SpecLive == Spec /\ WF_vars(\E ok \in BOOLEAN : RefreshDone(ok))

\* ------------------------------------------------------------------------
\* The tree builders on arbitrary record lists
\* ------------------------------------------------------------------------
\* update times of the records: two values, so that records tie and differ
Times == {1, 2}
SortKeys == {"updated_at", "created_at", "name", "message_count"}
SortConfigs == {[by |-> b, order |-> o] : b \in SortKeys, o \in {"asc", "desc"}}

\* a ChatInfo with file_id Name(id, 0); parent = 0 stands for no hint.  The
\* other sort keys are fixed by the id, with ties between records.
record(id, parent, t, current) ==
    [file_id |-> Name(id, 0),
     file_name |-> Name(id, 1),
     display_name |-> 2 - (id % 2),
     created_at |-> (id + 1) \div 2,
     updated_at |-> t,
     message_count |-> id % 3,
     parent_chat |-> IF parent = 0 THEN NoName ELSE Name(parent, 0),
     is_checkpoint |-> FALSE,
     is_current |-> current,
     obj |-> 0]

\* a record list with the ids 1..n: parent hints p, update times u, and the
\* record of the open chat at position c (none for c = 0)
InputOf(n, p, u, c) == [i \in 1..n |-> record(i, p[i], u[i], c = i)]

\* any list of up to MaxLen records: any parent hints among the ids
\* (self-references and cycles included), any update times, at most one
\* record of the open chat
InitTree ==
    /\ InitStore
    /\ \E n \in 0..MaxLen :
          \E p \in [1..n -> 0..n], u \in [1..n -> Times], c \in 0..n :
              input = InputOf(n, p, u, c)
    /\ result = NoResult

\* sortChats, detectBranchRelations, buildChatForest and buildChatTree are
\* called with the input
Build(config) ==
    /\ ~result.built
    /\ result' = [built |-> TRUE, sort_config |-> config,
                  sorted |-> sortChats(input, config),
                  relations |-> detectBranchRelations(input),
                  forest |-> buildChatForest(input, TRUE, config),
                  tree |-> buildChatTree(input, TRUE, config)]
    /\ UNCHANGED <<input, progVars>>

NextTree == \E config \in SortConfigs \cup {NoSort} : Build(config)

SpecTree == InitTree /\ [][NextTree]_vars

\* ------------------------------------------------------------------------
\* The resolver and the builders on records with hints of every form
\* ------------------------------------------------------------------------
\* the hints a record among n can carry: none, or the name of one of the
\* records or of a file that is not among them, as a file_id, as a file name
\* with its suffix, or with the suffix twice
Hints(n) == {NoName} \cup {Name(b, e) : b \in 1..n + 1, e \in 0..2}

\* chat_items of the chat file with id b
ChatItems(b) == 4 * (1 + (b % 3))

\* a record list with the ids 1..n, hints h and update times u
HintedInput(n, h, u) ==
    [i \in 1..n |-> [record(i, 0, u[i], FALSE) EXCEPT !.parent_chat = h[i],
                                                       !.message_count = ChatItems(i)]]

InitHint ==
    /\ InitStore
    /\ \E n \in 0..MaxLen :
          \E h \in [1..n -> Hints(n)], u \in [1..n -> Times] :
              input = HintedInput(n, h, u)
    /\ result = NoResult

NextHint == Build(DefaultSort) \/ Build(NoSort)

SpecHint == InitHint /\ [][NextHint]_vars

\* ------------------------------------------------------------------------
\* The tree view on a built forest
\* ------------------------------------------------------------------------
\* inputs that differ in their parent hints only
InitView ==
    /\ InitStore
    /\ \E n \in 0..MaxLen :
          \E p \in [1..n -> 0..n] :
              input = InputOf(n, p, [i \in 1..n |-> 1], 0)
    /\ result = NoResult

\* TreeView.vue toggle_select on a node of the displayed forest
toggle_select(id) ==
    /\ result.built /\ id \in DOMAIN result.forest.nodes
    /\ result' = [result EXCEPT !.forest.nodes[id].is_selected = ~@]
    /\ UNCHANGED <<input, progVars>>

\* TreeView.vue toggle_expand
toggle_expand(id) ==
    /\ result.built /\ id \in DOMAIN result.forest.nodes
    /\ result' = [result EXCEPT !.forest.nodes[id].is_expanded = ~@]
    /\ UNCHANGED <<input, progVars>>

NextView ==
    \/ Build(DefaultSort)
    \/ \E id \in DOMAIN result.forest.nodes : toggle_select(id)
    \/ \E id \in DOMAIN result.forest.nodes : toggle_expand(id)

SpecView == InitView /\ [][NextView]_vars

\* ------------------------------------------------------------------------
\* Properties
\* ------------------------------------------------------------------------
ServedOps == {"load_served", "open_served", "rename_served"}
FetchOps == {"load_fetch", "open_fetch", "rename_fetch"}
LoadFailedOps == {"load_failed", "delete_load_failed", "rename_load_failed"}

Flags(f) == [n \in DOMAIN f.nodes |-> <<f.nodes[n].is_selected, f.nodes[n].is_expanded>>]
AllFresh(f) == \A n \in DOMAIN f.nodes : ~f.nodes[n].is_selected /\ f.nodes[n].is_expanded

\* the displayed list is the cached one, as a first loadChats(false) leaves it
ShowsCache == global_cache.set /\ Ids(chats) = Ids(global_cache.chats)

\* C1 (as stated): a loadChats(false) served from the cache, called when the
\* displayed list is already the cached one, leaves the displayed ids and
\* every node's is_selected and is_expanded as they were.
C1_FlagsSurvive ==
    [][(last'.op = "load_served" /\ ShowsCache)
          => (Ids(chats') = Ids(chats) /\ Flags(forest') = Flags(forest))]_vars

\* C1 (amended): a loadChats(false) served from the cache, called when the
\* displayed list is already the cached one, leaves the displayed ids as they
\* were and builds the forest again: afterwards every node is unselected and
\* expanded, whatever was selected or collapsed before.
C1_ServedRebuilds ==
    [][(last'.op = "load_served" /\ ShowsCache)
          => (Ids(chats') = Ids(chats) /\ AllFresh(forest')
              /\ DOMAIN forest'.nodes = DOMAIN forest.nodes)]_vars

\* a second served load has acted on a forest with a selected or collapsed node
C1_Witness ==
    last.op = "load_served" /\ last.marked /\ Len(chats) > 0 /\ AllFresh(forest)

\* the refresh fetches in flight: the mounted store's and those of stores
\* that were unmounted meanwhile
RefreshesInFlight ==
    (IF bg.pc = "fetching" THEN 1 ELSE 0) + Cardinality({o \in orphans : o.kind = "refresh"})

\* C2: at most one background refresh fetch is in flight against the cache
\* at any time.
C2_SingleFlight == RefreshesInFlight <= 1

\* C3: when a background refresh returns, the cache is rewritten with the
\* fetched records; the displayed records and the forest with all its flags
\* are untouched if the fetched ids are the displayed ids; otherwise the
\* fetched records are displayed and the forest is the one built from them,
\* no node selected.
C3_ChangeAware ==
    [][last'.op = "refresh_done"
          => /\ global_cache' = updateCache(bg.res)
             /\ IF Ids(bg.res) = Ids(chats)
                THEN chats' = chats /\ forest' = forest
                ELSE /\ chats' = bg.res
                     /\ forest' = rebuildForest(bg.res)
                     /\ \A n \in DOMAIN forest'.nodes : ~forest'.nodes[n].is_selected]_vars

\* a refresh has returned the displayed ids with other content, and the
\* marked forest is still there
C3_Witness ==
    /\ last.op = "refresh_done" /\ last.marked /\ Marked(forest)
    /\ Content(global_cache.chats) # Content(chats)

\* C4: once invalidateCache has been called, the next loadChats(false) does
\* not serve the cache, also when a background refresh was in flight (here:
\* in the states in which that refresh has just returned).
C4_InvalidationForcesFetch ==
    (mounted /\ invalidated /\ last.op = "refresh_done") => TakesFetchPath(FALSE)

\* the list holds a chat that is no longer on the server
HoldsDeleted(res) == \E i \in 1..Len(res) : res[i].file_id.base \notin srv

\* C5: once deleteChats has completed its forced reload, no record list
\* fetched before a delete request was sent is written to the cache or the
\* displayed list (here: none that still holds a deleted chat).
C5_NoStaleEntries ==
    [][(del.fetch = "ok" /\ del.pc = "idle" /\ bg.pc = "fetching" /\ bg.stale
        /\ HoldsDeleted(bg.res) /\ last'.op = "refresh_done")
          => (chats' = chats /\ global_cache' = global_cache)]_vars

\* C6 (as stated): loadChats(false) serves the cache exactly when an entry
\* exists, is of the active character, and is at most CACHE_TTL old.
C6_ServedWithinTTL ==
    [][last'.op \in ServedOps \cup FetchOps
          => (last'.op \in ServedOps
                <=> /\ global_cache.set /\ char # NoChar
                    /\ global_cache.character = char
                    /\ now - global_cache.timestamp <= CACHE_TTL)]_vars

\* C6 (amended): loadChats(false) serves the cache exactly when an entry
\* exists, is of the active character, and is less than CACHE_TTL old; in
\* every other case it fetches.
C6_ServedBeforeTTL ==
    [][last'.op \in ServedOps \cup FetchOps
          => (last'.op \in ServedOps
                <=> /\ global_cache.set /\ char # NoChar
                    /\ global_cache.character = char
                    /\ now - global_cache.timestamp < CACHE_TTL)]_vars

\* loadChats(false) has fetched with an entry of the active character that
\* is exactly CACHE_TTL old
C6_Witness ==
    /\ last.op = "load_fetch" /\ load.pc = "fetching"
    /\ global_cache.set /\ global_cache.character = char
    /\ now - global_cache.timestamp = CACHE_TTL

\* C7: every loadChats(false) served from the cache requests a background
\* refresh: afterwards one is in flight, and it is a new fetch unless one was
\* in flight already.
C7_ServeRevalidates ==
    [][last'.op \in ServedOps
          => /\ is_background_loading' /\ bg'.pc = "fetching"
             /\ ~is_background_loading => (bg'.res = fetchChatList /\ next_obj' = next_obj + 1)
             /\ is_background_loading => bg' = bg]_vars

\* the cache was served in the instant it was written, and a refresh started
C7_Witness ==
    /\ last.op = "load_served" /\ now = global_cache.timestamp
    /\ bg.pc = "fetching" /\ Len(bg.res) > 0 /\ bg.res[1].obj = next_obj - 1

\* C8: a loadChats call that fetches writes neither the cache entry nor the
\* displayed list nor the forest when it starts, and when the fetch fails it
\* sets the error state and again writes none of them.
C8_FailureKeepsState ==
    [][/\ last'.op \in {"load_fetch", "rename_fetch"}
          => (global_cache' = global_cache /\ chats' = chats /\ forest' = forest)
       /\ last'.op \in LoadFailedOps
          => (error_message' # NoError /\ global_cache' = global_cache
              /\ chats' = chats /\ forest' = forest)]_vars

\* a fetch has failed with a list displayed and an entry in the cache
C8_Witness ==
    /\ last.op = "load_failed" /\ error_message = LoadFailed
    /\ global_cache.set /\ Len(chats) > 0 /\ last.marked /\ Marked(forest)

\* C9: a loadChats call whose fetch failed settles as rejected for its caller.
C9_FailureReachesCaller ==
    /\ load.fetch = "failed" => load.settled = "rejected"
    /\ del.fetch = "failed" => del.settled = "rejected"
    /\ ren.fetch = "failed" => ren.settled = "rejected"

\* C10: when the fetch of a background refresh fails, the error state, the
\* displayed list, the forest, the cache entry and the calls in flight are
\* as they were.
C10_RefreshFailureSilent ==
    [][last'.op = "refresh_failed"
          => /\ error_message' = error_message /\ chats' = chats /\ forest' = forest
             /\ global_cache' = global_cache
             /\ load' = load /\ del' = del /\ ren' = ren]_vars

\* a refresh has failed with a list displayed and an entry in the cache
C10_Witness ==
    /\ last.op = "refresh_failed" /\ error_message = NoError
    /\ global_cache.set /\ Len(chats) > 0

\* the forest is built from the displayed records
BuiltFromShown(cs, f) == \A n \in DOMAIN f.nodes : f.nodes[n].chat \in Range(cs)

\* C11: when a fetch of the open panel's store returns, foreground or
\* background, the displayed records have the content of the records it
\* returned, also when only fields other than the ids differ, and the forest
\* is built from the displayed records.
C11_ShowsLatestFetch ==
    [][/\ last'.op = "load_done" => (Content(chats') = Content(load.res) /\ BuiltFromShown(chats', forest'))
       /\ last'.op = "delete_loaded" => (Content(chats') = Content(del.res) /\ BuiltFromShown(chats', forest'))
       /\ last'.op = "rename_loaded" => (Content(chats') = Content(ren.res) /\ BuiltFromShown(chats', forest'))
       /\ last'.op = "refresh_done" => (Content(chats') = Content(bg.res) /\ BuiltFromShown(chats', forest'))]_vars

\* the ids listed under the roots of a forest, in pre-order
ListedIds(f) == flattenRoots(f.nodes, forestRoots(f), 1)

\* C12: the forest holds every input id in exactly one node that can be
\* reached from a root, and no other id, whatever the parent hints are.
C12_Partition ==
    result.built =>
        /\ Range(ListedIds(result.forest)) = Range(Ids(input))
        /\ Len(ListedIds(result.forest)) = Len(input)

\* every root has depth 0 and every child the depth of its parent plus 1
DepthsRight(roots, nodes) ==
    /\ \A r \in Range(roots) : nodes[r].depth = 0
    /\ \A n \in DOMAIN nodes : \A c \in Range(nodes[n].children) :
            nodes[c].depth = nodes[n].depth + 1

\* C13: in the results of buildChatForest and buildChatTree every root has
\* depth 0 and every attached node has its parent's depth plus 1, for every
\* sort order of the input.
C13_Depth ==
    result.built =>
        /\ DepthsRight(forestRoots(result.forest), result.forest.nodes)
        /\ DepthsRight(result.tree.roots, result.tree.nodes)

\* records a and b name each other as parent
Mutual(a, b) ==
    /\ a.file_id # b.file_id
    /\ a.parent_chat = b.file_id /\ b.parent_chat = a.file_id

\* a is a root with the child b, and b is not a root
RootAndChild(roots, nodes, a, b) ==
    /\ a \in Range(roots) /\ b \notin Range(roots)
    /\ b \in Range(nodes[a].children)

\* C14: of two records that name each other as parent, exactly one is a
\* root of the built forest (and of the built tree) and the other is its
\* child.
C14_CycleSafety ==
    result.built =>
        \A i, j \in 1..Len(input) :
            Mutual(input[i], input[j]) =>
                LET a == input[i].file_id
                    b == input[j].file_id
                    froots == forestRoots(result.forest)
                IN  /\ \/ RootAndChild(froots, result.forest.nodes, a, b)
                       \/ RootAndChild(froots, result.forest.nodes, b, a)
                    /\ \/ RootAndChild(result.tree.roots, result.tree.nodes, a, b)
                       \/ RootAndChild(result.tree.roots, result.tree.nodes, b, a)

RECURSIVE SumNodeCounts(_, _)
SumNodeCounts(trees, i) ==
    IF i > Len(trees) THEN 0 ELSE trees[i].node_count + SumNodeCounts(trees, i + 1)

\* C19: countNodesInForest of a built forest is the sum of its trees'
\* node_count and is its total_count, whatever the parent hints are.
C19_CountConsistent ==
    result.built =>
        /\ countNodesInForest(result.forest) = SumNodeCounts(result.forest.trees, 1)
        /\ countNodesInForest(result.forest) = result.forest.total_count

\* the position of a record in the input list
PosIn(cs, c) == CHOOSE i \in 1..Len(cs) : cs[i] = c

\* the list is ordered by the key in the direction of the configuration
OrderedBy(cs, config) ==
    \A i, j \in 1..Len(cs) :
        i < j => IF config.order = "asc"
                 THEN SortKey(cs[i], config.by) <= SortKey(cs[j], config.by)
                 ELSE SortKey(cs[i], config.by) >= SortKey(cs[j], config.by)

ParentsOf(nodes, n) == {k \in DOMAIN nodes : n \in Range(nodes[k].children)}

RECURSIVE Ancestors(_, _, _)
Ancestors(nodes, S, seen) ==
    LET up == (UNION {ParentsOf(nodes, n) : n \in S}) \ seen
    IN  IF up = {} THEN seen ELSE Ancestors(nodes, up, seen \cup up)

\* the nodes the tree view emits for the forest
Emitted(f) ==
    LET shown == visible_nodes_with_info(f.nodes, forestRoots(f))
    IN  {shown[i].node : i \in 1..Len(shown)}

\* C16: a selected node is returned by getSelectedNodesFromForest whether
\* its ancestors are collapsed or not; the visible-nodes traversal emits it
\* exactly when none of its ancestors is collapsed.
C16_SelectionIndependent ==
    result.built =>
        \A n \in DOMAIN result.forest.nodes :
            LET nodes == result.forest.nodes
                collapsed == {k \in Ancestors(nodes, {n}, {}) : ~nodes[k].is_expanded}
            IN  /\ nodes[n].is_selected
                      <=> n \in Range(getSelectedNodesFromForest(result.forest))
                /\ n \in Emitted(result.forest) <=> collapsed = {}

\* a selected node under two ancestors, the upper one collapsed: selected
\* and not emitted
C16_Witness ==
    /\ result.built
    /\ \E n \in DOMAIN result.forest.nodes :
          LET nodes == result.forest.nodes
              anc == Ancestors(nodes, {n}, {})
          IN  /\ nodes[n].is_selected /\ Cardinality(anc) = 2
              /\ \E k \in anc : ~nodes[k].is_expanded /\ ParentsOf(nodes, k) = {}
              /\ n \in Range(getSelectedNodesFromForest(result.forest))
              /\ n \notin Emitted(result.forest)

\* C17: in a built forest every tree with has_current precedes every tree
\* without it, and trees with the same has_current are in non-increasing
\* order of latest_update.
C17_TreeOrder ==
    result.built =>
        \A i, j \in 1..Len(result.forest.trees) :
            i < j =>
                LET a == result.forest.trees[i]
                    b == result.forest.trees[j]
                IN  /\ b.has_current => a.has_current
                    /\ (a.has_current = b.has_current) => a.latest_update >= b.latest_update

\* three trees: the one of the open chat is first although it is older
\* than the second, and the third is older than the second
C17_Witness ==
    /\ result.built /\ Len(result.forest.trees) = 3
    /\ result.forest.trees[1].has_current
    /\ result.forest.trees[1].latest_update < result.forest.trees[2].latest_update
    /\ result.forest.trees[3].latest_update < result.forest.trees[2].latest_update

\* the ids in the subtree of a node, the node included
RECURSIVE SubtreeIds(_, _)
SubtreeIds(nodes, S) ==
    LET down == S \cup UNION {Range(nodes[n].children) : n \in S}
    IN  IF down = S THEN S ELSE SubtreeIds(nodes, down)

\* C18: node_count of a tree is the number of nodes in its root's subtree,
\* latest_update the largest update time in the subtree, has_current whether
\* a record of the subtree is the open chat.
C18_TreeAggregates ==
    result.built =>
        \A i \in 1..Len(result.forest.trees) :
            LET tree == result.forest.trees[i]
                nodes == result.forest.nodes
                sub == SubtreeIds(nodes, {tree.root})
            IN  /\ tree.node_count = Cardinality(sub)
                /\ \E n \in sub : nodes[n].chat.updated_at = tree.latest_update
                /\ \A n \in sub : nodes[n].chat.updated_at <= tree.latest_update
                /\ tree.has_current <=> \E n \in sub : nodes[n].chat.is_current

\* a chain of three: the open chat and the latest update are at the bottom
C18_Witness ==
    /\ result.built /\ Len(result.forest.trees) = 1
    /\ LET tree == result.forest.trees[1]
           nodes == result.forest.nodes
       IN  /\ tree.node_count = 3 /\ Len(nodes[tree.root].children) = 1
           /\ tree.has_current /\ ~nodes[tree.root].chat.is_current
           /\ tree.latest_update > nodes[tree.root].chat.updated_at
           /\ \A c \in Range(nodes[tree.root].children) :
                  ~nodes[c].chat.is_current /\ nodes[c].chat.updated_at < tree.latest_update

\* C20: in a built forest the children of every node are ordered by update
\* time, latest first, whatever sort configuration was passed in.
C20_SiblingsNewestFirst ==
    result.built =>
        \A n \in DOMAIN result.forest.nodes :
            LET kids == result.forest.nodes[n].children
            IN  \A i, j \in 1..Len(kids) :
                    i < j => result.forest.nodes[kids[i]].chat.updated_at
                               >= result.forest.nodes[kids[j]].chat.updated_at

\* sorted by update time ascending, a node has its later child first
C20_Witness ==
    /\ result.built /\ result.sort_config = [by |-> "updated_at", order |-> "asc"]
    /\ \E n \in DOMAIN result.forest.nodes :
          LET kids == result.forest.nodes[n].children
          IN  /\ Len(kids) = 2
              /\ result.forest.nodes[kids[1]].chat.updated_at
                    > result.forest.nodes[kids[2]].chat.updated_at

\* the names a hint can name a record by: its id, its file name, and its
\* file name without the suffix
NamesOf(c) == {c.file_id, c.file_name, Name(c.file_name.base, c.file_name.ext - 1)}

\* the ids of the records of the list that the hint names
Resolves(cs, hint) == {cs[i].file_id : i \in {j \in 1..Len(cs) : hint \in NamesOf(cs[j])}}

\* C21: detectBranchRelations maps a record to a parent exactly when its
\* hint names another record of the input by id, by file name or by file
\* name without suffix, and then to that record; a record with no hint, with
\* a hint naming itself or naming no record has no entry; the empty input
\* gives the empty mapping.
C21_MetadataResolution ==
    result.built =>
        LET r == result.relations
        IN  /\ DOMAIN r \subseteq Range(Ids(input))
            /\ input = << >> => DOMAIN r = {}
            /\ \A i \in 1..Len(input) :
                   LET c == input[i]
                       named == Resolves(input, c.parent_chat)
                   IN  /\ c.file_id \in DOMAIN r
                            <=> (c.parent_chat # NoName /\ named # {} /\ named # {c.file_id})
                       /\ c.file_id \in DOMAIN r
                            => (r[c.file_id] # c.file_id /\ named = {r[c.file_id]})

\* one record is mapped through a hint in file-name form, one names itself
\* and one names a file with a doubled suffix: only the first has an entry
C21_Witness ==
    /\ result.built /\ Len(input) = 3 /\ Cardinality(DOMAIN result.relations) = 1
    /\ \E i, j, k \in 1..3 :
          /\ input[i].parent_chat.ext = 1 /\ input[i].file_id \in DOMAIN result.relations
          /\ input[j].parent_chat = input[j].file_id
          /\ input[k].parent_chat.ext = 2 /\ input[k].parent_chat.base \in 1..3

\* the node p of the forest has the node n among its children
ChildOf(f, n, p) == p \in DOMAIN f.nodes /\ n \in Range(f.nodes[p].children)

\* C22: in the forest built from the input, n is a child of p exactly when
\* the resolver maps n to p, and a record the resolver does not map is a
\* root.
C22_BuiltFromMapping ==
    result.built =>
        LET r == result.relations
            ids == Range(Ids(input))
        IN  /\ \A n, p \in ids :
                   ChildOf(result.forest, n, p) <=> (n \in DOMAIN r /\ r[n] = p)
            /\ \A n \in ids \ DOMAIN r : n \in Range(forestRoots(result.forest))

\* the message bodies of the chat file with id b: files 1 and 3 begin with
\* the same three messages and differ from the fourth on
Messages(b) ==
    [k \in 1..ChatItems(b) |-> IF b \in {1, 3} /\ k <= 3 THEN k ELSE 10 * b + k]

\* the number of leading positions, among the first 5, at which the two
\* files hold the same body
Score(a, b) ==
    Cardinality({k \in 1..5 : \A j \in 1..k :
                    /\ j <= Len(Messages(a)) /\ j <= Len(Messages(b))
                    /\ Messages(a)[j] = Messages(b)[j]})

\* of two records, the one with more messages, or the one created earlier
\* when they have as many
IsParentOf(x, y) ==
    \/ x.message_count > y.message_count
    \/ x.message_count = y.message_count /\ x.created_at < y.created_at

\* C23: when no record carries a hint, two records whose first messages
\* agree at 2 positions or more are related: the resolver maps the one with
\* fewer messages (the later one, when they have as many) to the other.
C23_SimilarityFallback ==
    (result.built /\ \A i \in 1..Len(input) : input[i].parent_chat = NoName) =>
        \A i, j \in 1..Len(input) :
            (Score(input[i].file_id.base, input[j].file_id.base) >= 2
             /\ IsParentOf(input[i], input[j]))
                => /\ input[j].file_id \in DOMAIN result.relations
                   /\ result.relations[input[j].file_id] = input[i].file_id

\* the ids whose delete request was answered with a failure
FailedRequests(d) == {d.sent[i] : i \in {j \in 1..Len(d.answers) : ~d.answers[j]}}

\* C24: a call of deleteChats with n ids that has returned has sent a request
\* for every one of the n ids, whatever the earlier answers were, and has
\* returned success_count, fail_count and failed_ids, with the two counts
\* adding up to n and failed_ids holding exactly the ids whose request failed.
C24_Aggregate ==
    del.returned = "counts" =>
        /\ del.sent = del.file_ids /\ Len(del.answers) = Len(del.file_ids)
        /\ DOMAIN del.value = {"success_count", "fail_count", "failed_ids"}
        /\ del.value.success_count + del.value.fail_count = Len(del.file_ids)
        /\ Range(del.value.failed_ids) = FailedRequests(del)

\* the ancestors of a node of the forest, from its root down to its parent
RECURSIVE PathTo(_, _)
PathTo(nodes, n) ==
    IF ParentsOf(nodes, n) = {} THEN << >>
    ELSE LET p == CHOOSE k \in ParentsOf(nodes, n) : TRUE
         IN  Append(PathTo(nodes, p), p)

\* the list a node is in: its parent's children, or the roots
SiblingsOf(f, n) ==
    IF ParentsOf(f.nodes, n) = {} THEN forestRoots(f)
    ELSE f.nodes[CHOOSE k \in ParentsOf(f.nodes, n) : TRUE].children

IsLastSibling(f, n) == SiblingsOf(f, n)[Len(SiblingsOf(f, n))] = n

IndexAmongSiblings(f, n) == CHOOSE i \in 1..Len(SiblingsOf(f, n)) : SiblingsOf(f, n)[i] = n

\* a comes before b in depth-first pre-order: a is an ancestor of b, or
\* where their paths from the roots part, a's side is the earlier sibling
PreOrderBefore(f, a, b) ==
    LET pa == Append(PathTo(f.nodes, a), a)
        pb == Append(PathTo(f.nodes, b), b)
        same == {k \in 1..Len(pa) : k <= Len(pb) /\ \A j \in 1..k : pa[j] = pb[j]}
        d == Cardinality(same) + 1
    IN  IF d > Len(pa) THEN Len(pb) > Len(pa)
        ELSE d <= Len(pb) /\ IndexAmongSiblings(f, pa[d]) < IndexAmongSiblings(f, pb[d])

\* C25: the visible-nodes sequence lists, in depth-first pre-order and each
\* once, the nodes none of whose ancestors is collapsed; isLastChild of an
\* entry tells whether the node is the last of its siblings, and
\* ancestorContinuations has one entry per ancestor from the root down, true
\* exactly when that ancestor is not the last of its own siblings.
C25_VisibleTraversal ==
    result.built =>
        LET f == result.forest
            shown == visible_nodes_with_info(f.nodes, forestRoots(f))
        IN  /\ \A n \in DOMAIN f.nodes :
                   (\E i \in 1..Len(shown) : shown[i].node = n)
                      <=> \A k \in Ancestors(f.nodes, {n}, {}) : f.nodes[k].is_expanded
            /\ \A i, j \in 1..Len(shown) :
                   i < j => PreOrderBefore(f, shown[i].node, shown[j].node)
            /\ [i \in 1..Len(shown) |-> shown[i].node] = flattenTree(f.nodes, forestRoots(f))
            /\ \A i \in 1..Len(shown) :
                   LET n == shown[i].node
                       path == PathTo(f.nodes, n)
                   IN  /\ shown[i].isLastChild <=> IsLastSibling(f, n)
                       /\ shown[i].ancestorContinuations
                             = [k \in 1..Len(path) |-> ~IsLastSibling(f, path[k])]

\* a child is emitted under the first of two roots: it is a last child and
\* its one ancestor is continued
C25_Witness ==
    /\ result.built
    /\ LET f == result.forest
           shown == visible_nodes_with_info(f.nodes, forestRoots(f))
       IN  /\ Len(shown) = 3 /\ Len(f.trees) = 2
           /\ shown[2].ancestorContinuations = <<TRUE>> /\ shown[2].isLastChild
           /\ ~shown[1].isLastChild /\ shown[3].isLastChild

\* delete requests sent and not yet answered
Outstanding(d) == Len(d.sent) - Len(d.answers)

\* C26: during deleteChats at most one delete request is outstanding, the
\* requests go out in the order of the id list, one per id, and the cache is
\* invalidated and the reload is started only when the last request has been
\* answered.
C26_SequentialDelete ==
    [][/\ Outstanding(del') \in {0, 1}
       /\ Len(del'.sent) <= Len(del'.file_ids)
       /\ del'.sent = SubSeq(del'.file_ids, 1, Len(del'.sent))
       /\ last'.op = "delete_reload"
             => (del.sent = del.file_ids /\ Len(del.answers) = Len(del.file_ids))]_vars

\* the reload of a delete of two chats starts: the first request failed, the
\* second was sent all the same and succeeded
C26_Witness ==
    /\ last.op = "delete_reload" /\ del.pc = "fetching"
    /\ Len(del.file_ids) = 2 /\ del.sent = del.file_ids /\ del.answers = <<FALSE, TRUE>>

\* C27: is_background_loading is set only while a background refresh is in
\* flight, and a refresh that has started sets it back to false in the end,
\* whether its fetch returns or throws; from then on a loadChats served from
\* the cache starts a refresh again.
C27_FlagReleased ==
    /\ [](is_background_loading <=> bg.pc = "fetching")
    /\ is_background_loading ~> ~is_background_loading
    /\ [][(last'.op \in ServedOps /\ ~is_background_loading)
             => (is_background_loading' /\ bg'.pc = "fetching")]_vars

\* a refresh has ended with a throwing fetch: the flag is down, no refresh is
\* in flight, and the cache is still valid, so that the next loadChats is
\* served from it
C27_Witness ==
    /\ last.op = "refresh_failed" /\ mounted
    /\ ~is_background_loading /\ bg.pc = "idle"
    /\ ~TakesFetchPath(FALSE)

\* every record of the list is of a chat file of the character
FetchedFor(cs, character) == \A i \in 1..Len(cs) : OwnerOf(cs[i].file_id.base) = character

\* C28: the cache entry is tagged with the character its records were
\* fetched for, and a loadChats served from the cache displays records of
\* the active character only.
C28_OwnerTagging ==
    /\ global_cache.set => FetchedFor(global_cache.chats, global_cache.character)
    /\ (mounted /\ last.op \in ServedOps) => FetchedFor(chats, char)

\* C29: in every state of the store, has_current of every tree of the
\* displayed forest tells whether a node of the tree is the record of the
\* open chat; after a successful openChat the tree of the opened chat, and
\* no other, has has_current.
C29_HasCurrentConsistent ==
    mounted =>
        \A i \in 1..Len(forest.trees) :
            LET tree == forest.trees[i]
            IN  tree.has_current
                  <=> \E n \in SubtreeIds(forest.nodes, {tree.root}) :
                          forest.nodes[n].chat.is_current

\* the call of deleteChats returns or throws in this step
DeleteReturns == del.returned = "none" /\ del'.returned # "none"

\* C30: deleteChats takes the requested ids out of the displayed list before
\* its first delete request, and when it has returned, every requested record
\* whose request failed and which the record source still returns (it held
\* the record when the reload was made and holds it now) is displayed again.
C30_FailedReappear ==
    [][/\ last'.op = "delete" => Range(del'.file_ids) \cap Range(Ids(chats')) = {}
       /\ (DeleteReturns /\ del'.returned = "counts")
             => \A id \in FailedRequests(del') \cap del'.held :
                    id \in Range(Ids(fetchFrom(srv', msgs', cur_chat')))
                       => id \in Range(Ids(chats'))]_vars

====
